---- MODULE Spec2Model ----
(***************************************************************************)
(* Model of the Gmail Auto-Label Sender userscript: the click handler      *)
(* handleAutoLabelClick, the navigation wait, the filter matcher, the      *)
(* creation wizard driver and the filter updater (src/src/index.ts), and   *)
(* the sender extraction helpers (src/src/utils.ts).                       *)
(*                                                                         *)
(* Strings are sequences of one-character strings.  JavaScript runs each   *)
(* callback to completion, so one action is one synchronous block: the     *)
(* code between two suspension points (timer callbacks).                   *)
(***************************************************************************)
EXTENDS Integers, Sequences, FiniteSets, TLC

\* ------------------------------------------------------------------------
\* Strings
\* ------------------------------------------------------------------------

\* The JavaScript value null (also used for an absent attribute / element).
Null == <<"NULL">>

Letters == {"j", "x", "o", "e", "c", "n", "l", "J"}

\* \w of the regular expressions: word characters.
IsWordChar(ch) == ch \in Letters

\* [\w.-] of the bare address pattern.
IsAddrChar(ch) == IsWordChar(ch) \/ ch = "." \/ ch = "-"

\* [^\s@] of the validation pattern.
IsLocalChar(ch) == ch # " " /\ ch # "@"

\* String.prototype.includes
Includes(s, t) ==
  \E i \in 0..(Len(s) - Len(t)) : SubSeq(s, i + 1, i + Len(t)) = t

\* String.prototype.trim
RECURSIVE TrimLeft(_)
TrimLeft(s) == IF s # <<>> /\ Head(s) = " " THEN TrimLeft(Tail(s)) ELSE s

RECURSIVE TrimRight(_)
TrimRight(s) ==
  IF s # <<>> /\ s[Len(s)] = " " THEN TrimRight(SubSeq(s, 1, Len(s) - 1)) ELSE s

Trim(s) == TrimRight(TrimLeft(s))

\* JavaScript truthiness of a string-or-null value.
Truthy(s) == s # Null /\ s # <<>>

\* The characters lo..hi of s all belong to a class.
AllLocal(s, lo, hi) == \A k \in lo..hi : IsLocalChar(s[k])
AllAddr(s, lo, hi) == \A k \in lo..hi : IsAddrChar(s[k])
AllWord(s, lo, hi) == \A k \in lo..hi : IsWordChar(s[k])

\* ------------------------------------------------------------------------
\* utils.ts: validateEmail, extractEmailAddress, extractSenderFromElement
\* ------------------------------------------------------------------------

\* /^[^\s@]+@[^\s@]+\.[^\s@]+$/.test(email)
validateEmail(email) ==
  \E i \in 2..(Len(email) - 3) :
    \E k \in (i + 2)..(Len(email) - 1) :
      /\ email[i] = "@"
      /\ email[k] = "."
      /\ AllLocal(email, 1, i - 1)
      /\ AllLocal(email, i + 1, k - 1)
      /\ AllLocal(email, k + 1, Len(email))

\* Start positions at which /<([^>]+)>/ matches, with the closing bracket.
AngleClose(s, i) ==
  LET later == {j \in (i + 1)..Len(s) : s[j] = ">"}
  IN  IF later = {} THEN 0 ELSE CHOOSE j \in later : \A q \in later : j <= q

AngleStarts(s) ==
  {i \in 1..Len(s) : s[i] = "<" /\ AngleClose(s, i) > i + 1}

\* (i, j) such that s[i..j] matches /[\w.-]+@[\w.-]+\.\w+/
BareMatch(s, i, j) ==
  \E a \in (i + 1)..(j - 3) :
    \E d \in (a + 2)..(j - 1) :
      /\ s[a] = "@"
      /\ s[d] = "."
      /\ AllAddr(s, i, a - 1)
      /\ AllAddr(s, a + 1, d - 1)
      /\ AllWord(s, d + 1, j)

BareStarts(s) == {i \in 1..Len(s) : \E j \in i..Len(s) : BareMatch(s, i, j)}

Least(S) == CHOOSE x \in S : \A y \in S : x <= y
Greatest(S) == CHOOSE x \in S : \A y \in S : x >= y

extractEmailAddress(emailString) ==
  IF AngleStarts(emailString) # {}
  THEN LET i == Least(AngleStarts(emailString))
       IN  SubSeq(emailString, i + 1, AngleClose(emailString, i) - 1)
  ELSE IF BareStarts(emailString) # {}
  THEN LET i == Least(BareStarts(emailString))
           j == Greatest({q \in i..Len(emailString) : BareMatch(emailString, i, q)})
       IN  SubSeq(emailString, i, j)
  ELSE Trim(emailString)

\* The loop bound of extractSenderFromElement.
MaxLevels == 15

\* A clicked element is the chain of nodes from the element upwards; a node
\* records what the three lookups of one loop iteration return there:
\*   desc: the email attribute of querySelector("[email]") (Null: no element)
\*   own:  the node's own email attribute (Null: no attribute)
\*   text: textContent of querySelector(".go, .gD, .g2") (Null: no element)
Node(desc, own, text) == [desc |-> desc, own |-> own, text |-> text]

\* Mutant of LevelCandidate: the descendant attribute is returned without
\* validation.
LevelCandidateUnvalidated(node) ==
  IF Truthy(node.desc) THEN node.desc
  ELSE IF Truthy(node.own) /\ validateEmail(node.own) THEN node.own
  ELSE IF node.text # Null
          /\ Truthy(extractEmailAddress(node.text))
          /\ validateEmail(extractEmailAddress(node.text))
       THEN extractEmailAddress(node.text)
  ELSE Null

\* The candidate one loop iteration returns, or Null to go on to the parent.
LevelCandidate(node) ==
  IF Truthy(node.desc) /\ validateEmail(node.desc) THEN node.desc
  ELSE IF Truthy(node.own) /\ validateEmail(node.own) THEN node.own
  ELSE IF node.text # Null
          /\ Truthy(extractEmailAddress(node.text))
          /\ validateEmail(extractEmailAddress(node.text))
       THEN extractEmailAddress(node.text)
  ELSE Null

RECURSIVE ExtractFrom(_, _)
ExtractFrom(chain, i) ==
  IF ~(i < MaxLevels /\ i < Len(chain)) THEN Null
  ELSE IF LevelCandidate(chain[i + 1]) # Null THEN LevelCandidate(chain[i + 1])
  ELSE ExtractFrom(chain, i + 1)

extractSenderFromElement(element) == ExtractFrom(element, 0)

\* ------------------------------------------------------------------------
\* Values the model draws its inputs from
\* ------------------------------------------------------------------------

\* Addresses: Jane's, one that contains Jane's as a substring, an older one.
Jane == <<"j", "@", "e", ".", "c">>
XJane == <<"x">> \o Jane
Old == <<"o", "@", "e", ".", "c">>

\* Label names: the first is a prefix of the second.
LabelN == <<"n">>
LabelNL == <<"n", "l">>

\* METADATA_PREFIX of ./constants: a constant prefix of the marker.
METADATA_PREFIX == <<"#">>

\* `${METADATA_PREFIX}${labelName}`
Marker(labelName) == METADATA_PREFIX \o labelName

\* Right-clicked elements: sender shown as "J<j@e.c>" text; an element whose
\* own descendant attribute is invalid and whose parent exposes x j@e.c;
\* an element around which no valid address is found.
ElText == <<Node(Null, Null, <<"J", "<">> \o Jane \o <<">">>)>>
ElAttr == <<Node(<<"x">>, Null, Null), Node(XJane, Null, Null)>>
ElNone == <<Node(Null, <<"j", "e">>, <<"n", "o">>)>>
Elements == {ElText, ElAttr, ElNone}

\* rightClickedElement before any right-click (null): no node at all.
NoElement == <<>>

\* What prompt() returns: null on cancel, else the typed text.
PromptAnswers == {Null, <<>>, <<" ">>, LabelN, LabelNL \o <<" ">>}

\* A filter rule of the host: its From criterion and its "Doesn't have" text;
\* for a rule made through the wizard after the hand-off message, the label
\* the message named.
Rule(from, doesntHave) ==
  [from |-> from, doesntHave |-> doesntHave, createdFor |-> Null]

\* Rule lists the host can hold before the first run.
InitialRules == {<<>>, <<Rule(Old, Marker(LabelNL))>>}

InboxHash == "#inbox"
SettingsHash == "#settings/filters"

\* Number of workflow runs the user triggers.
MaxRuns == 2

\* The slot of the run records of runs triggered one after the other.
Slots == {1}

\* The slots of run records where runs can overlap.
OverlapSlots == {1, 2}

\* ------------------------------------------------------------------------
\* Timing constants of index.ts (milliseconds)
\* ------------------------------------------------------------------------
NavIntervalMs == 200
NavSettleMs == 1000
NavTimeoutMs == 10000
LabelsIntervalMs == 100
LabelsTimeoutMs == 5000
ProceedDelayMs == 300
ActionsDelayMs == 800
CheckboxDelayMs == 500
EditOpenDelayMs == 1000
UpdateDelayMs == 500
UpdatedDelayMs == 500

\* ------------------------------------------------------------------------
\* State
\* ------------------------------------------------------------------------
VARIABLES
  rightClickedElement, \* index.ts:6
  hash,                \* window.location.hash
  rules,               \* the host's filter rules, in list order
  form,                \* the host's filter form (wizard / edit view)
  settingsShown,       \* ".Tm.aeJ, .aKh" is in the document
  labelsShown,         \* some <label> is in the document
  timers,              \* pending setInterval / setTimeout callbacks
  run,                 \* per slot: the activation of handleAutoLabelClick
  nruns,               \* runs triggered so far
  lastUpdate           \* the previous run, if it completed the update path

vars == <<rightClickedElement, hash, rules, form, settingsShown, labelsShown,
          timers, run, nruns, lastUpdate>>

ClosedForm == [view |-> "none", from |-> <<>>, doesntHave |-> <<>>, row |-> 0,
               checked |-> FALSE, label |-> Null, owner |-> 0]

NoUpdate == [row |-> 0, sender |-> Null]

\* The locals of one activation, and a record of what it did.
NewRun(id) ==
  [pc |-> "idle", id |-> id,
   senderEmail |-> Null, answer |-> Null, labelName |-> Null,
   originalHash |-> "", existingFilter |-> 0, rowsRendered |-> FALSE,
   path |-> "none",
   navState |-> "none", navElapsed |-> 0, navDetectAt |-> 0, navBy |-> "none",
   navTrueAtStart |-> FALSE,
   wlState |-> "none", wlElapsed |-> 0, wlTrueAtStart |-> FALSE,
   alerts |-> <<>>, threw |-> FALSE, failedAt |-> "none", prompted |-> FALSE, navigated |-> FALSE,
   touched |-> FALSE, fromWrites |-> 0, markerWrites |-> 0,
   proceedClicks |-> 0, checkboxClicks |-> 0, updateClicks |-> 0,
   extracted |-> "none", fromBefore |-> Null, steps |-> <<>>,
   endHash |-> "", prevUpdate |-> NoUpdate,
   startedDuring |-> 0, foreignForm |-> FALSE]

Timer(id, kind, delay) == [id |-> id, kind |-> kind, delay |-> delay]

Init ==
  /\ rightClickedElement = NoElement
  /\ hash = InboxHash
  /\ rules \in InitialRules
  /\ form = ClosedForm
  /\ settingsShown = FALSE
  /\ labelsShown = FALSE
  /\ timers = {}
  /\ run = [r \in OverlapSlots |-> NewRun(0)]
  /\ nruns = 0
  /\ lastUpdate = NoUpdate

Active(r) == run[r].pc \notin {"idle", "done"}

\* ------------------------------------------------------------------------
\* Timers: a timer fires when no other pending timer is due earlier; the
\* time that passes is taken off the others and added to the running waits.
\* ------------------------------------------------------------------------
Due(t) == t \in timers /\ \A u \in timers : t.delay <= u.delay

Rest(t) == {[u EXCEPT !.delay = @ - t.delay] : u \in timers \ {t}}

Aged(d) ==
  [q \in OverlapSlots |->
     [run[q] EXCEPT
        !.navElapsed = IF run[q].navState = "pending" THEN @ + d ELSE @,
        !.wlElapsed = IF run[q].wlState = "pending" THEN @ + d ELSE @]]

\* ------------------------------------------------------------------------
\* index.ts: pieces of the handlers
\* ------------------------------------------------------------------------

\* Mutant of LabelAccepted: the test without `.trim()`.
LabelAcceptedNoTrim(labelName) == Truthy(labelName)

\* handleAutoLabelClick: the label test that lets the run go on
\* (the negation of `!labelName || labelName.trim() === ""`).
LabelAccepted(labelName) == Truthy(labelName) /\ Trim(labelName) # <<>>

\* handleAutoLabelClick: the messages shown after createOrUpdateFilter
\* returned, and in the catch block.
SuccessAlerts(alerts) == Append(alerts, "success")

\* Mutant of FailureAlerts: the catch block logs and goes on to the success
\* message.
FailureAlertsSwallowed(alerts) == Append(alerts, "success")

FailureAlerts(alerts) == Append(alerts, "failed")

\* The text of a rendered rule row: its criteria.
RowText(rule) == rule.from \o <<" ">> \o rule.doesntHave

\* document.querySelectorAll("[data-filter-id]"): the rows, when rendered.
RenderedRows(rendered) == IF rendered THEN rules ELSE <<>>

\* findFilterByMetadata: index of the first row whose text includes the
\* marker, 0 for null.
findFilterByMetadata(rows, labelName) ==
  LET hits == {i \in 1..Len(rows) : Includes(RowText(rows[i]), Marker(labelName))}
  IN  IF hits = {} THEN 0 ELSE Least(hits)

\* Mutant of LabelsTimedOut: the timeout test one poll late.
LabelsTimedOutLate(elapsed) == elapsed > LabelsTimeoutMs + LabelsIntervalMs

\* waitForLabels: `Date.now() - start > timeout`
LabelsTimedOut(elapsed) == elapsed > LabelsTimeoutMs

\* updateExistingFilter: `currentValue.includes(newSenderEmail)` and the
\* appended value.
AlreadyListed(currentValue, newSenderEmail) == Includes(currentValue, newSenderEmail)
Appended(currentValue, newSenderEmail) ==
  currentValue \o <<" ", "|", " ">> \o newSenderEmail

\* What the host does when the location changes: elements of the settings
\* view go away with it.
ShownAfter(shown, newHash) == shown /\ newHash = SettingsHash

\* Mutant of NavTimers: the predicate is also checked at once.
NavTimersImmediate(id) ==
  {Timer(id, "navInterval", 0), Timer(id, "navTimeout", NavTimeoutMs)}

\* navigateToFiltersSettings: the timers it starts, setInterval(..., 200)
\* and setTimeout(..., 10000); an interval's callback first runs one
\* interval after it is set.
NavTimers(id) ==
  {Timer(id, "navInterval", NavIntervalMs), Timer(id, "navTimeout", NavTimeoutMs)}

\* Mutant of NavSettleTimer: the settle delay is one polling interval.
NavSettleTimerShort(id) == Timer(id, "navSettle", NavIntervalMs)

\* navigateToFiltersSettings: `setTimeout(() => resolve(), 1000)` on
\* detection (index.ts:140).
NavSettleTimer(id) == Timer(id, "navSettle", NavSettleMs)

\* A throw inside createOrUpdateFilter: its catch rethrows (index.ts:173-176)
\* and the catch of handleAutoLabelClick shows the failure message.
Throw(r, aged, rec, tms) ==
  /\ run' = [aged EXCEPT ![r] =
               [rec EXCEPT !.pc = "done", !.threw = TRUE,
                           !.alerts = FailureAlerts(@), !.endHash = hash]]
  /\ timers' = tms
  /\ lastUpdate' = NoUpdate
  /\ UNCHANGED <<hash, settingsShown, labelsShown>>

\* The record of a run that found a required element missing at a step.
Fail(rec, step) == [rec EXCEPT !.failedAt = step]

\* createNewFilter / updateExistingFilter returned: createOrUpdateFilter
\* restores the location and handleAutoLabelClick shows the success message.
Return(r, aged, rec, tms) ==
  /\ hash' = rec.originalHash
  /\ settingsShown' = ShownAfter(settingsShown, rec.originalHash)
  /\ labelsShown' = ShownAfter(labelsShown, rec.originalHash)
  /\ run' = [aged EXCEPT ![r] =
               [rec EXCEPT !.pc = "done", !.alerts = SuccessAlerts(@),
                           !.endHash = rec.originalHash]]
  /\ timers' = tms
  /\ lastUpdate' = IF rec.path = "update"
                   THEN [row |-> rec.existingFilter, sender |-> rec.senderEmail]
                   ELSE NoUpdate

\* ------------------------------------------------------------------------
\* Actions
\* ------------------------------------------------------------------------

\* The capturing contextmenu listener (index.ts:22-24).  The user is taken
\* to right-click between runs.
ContextMenuB(maxRuns) ==
  /\ \A q \in Slots : ~Active(q)
  /\ nruns < maxRuns
  /\ \E el \in Elements : rightClickedElement' = el
  /\ rightClickedElement' # rightClickedElement
  /\ UNCHANGED <<hash, rules, form, settingsShown, labelsShown, timers, run,
                 nruns, lastUpdate>>

\* The menu item's click listener: handleAutoLabelClick up to its first
\* suspension, inside navigateToFiltersSettings.
HandleClick(r) ==
  /\ nruns' = nruns + 1
  /\ LET others == {run[q].id : q \in {q \in OverlapSlots : Active(q)}}
         fresh == [NewRun(nruns + 1) EXCEPT
                     !.prevUpdate = lastUpdate,
                     !.startedDuring = IF others = {} THEN 0 ELSE Greatest(others)]
         senderEmail == extractSenderFromElement(rightClickedElement)
     IN
     IF rightClickedElement = NoElement
     THEN /\ run' = [run EXCEPT ![r] = [fresh EXCEPT !.pc = "done", !.endHash = hash]]
          /\ UNCHANGED <<hash, settingsShown, labelsShown, timers>>
     ELSE IF ~Truthy(senderEmail)
     THEN /\ run' = [run EXCEPT ![r] =
                       [fresh EXCEPT !.pc = "done", !.alerts = <<"nosender">>,
                                     !.extracted = "null", !.endHash = hash]]
          /\ UNCHANGED <<hash, settingsShown, labelsShown, timers>>
     ELSE \E answer \in PromptAnswers :
            IF ~LabelAccepted(answer)
            THEN /\ run' = [run EXCEPT ![r] =
                              [fresh EXCEPT !.pc = "done", !.prompted = TRUE,
                                            !.extracted = "address",
                                            !.senderEmail = senderEmail,
                                            !.answer = answer, !.endHash = hash]]
                 /\ UNCHANGED <<hash, settingsShown, labelsShown, timers>>
            ELSE /\ run' = [run EXCEPT ![r] =
                              [fresh EXCEPT !.pc = "nav", !.prompted = TRUE,
                                            !.extracted = "address",
                                            !.senderEmail = senderEmail,
                                            !.answer = answer,
                                            !.labelName = Trim(answer),
                                            !.originalHash = hash,
                                            !.navigated = TRUE,
                                            !.navState = "pending",
                                            !.navTrueAtStart = settingsShown]]
                 /\ hash' = SettingsHash
                 /\ settingsShown' = ShownAfter(settingsShown, SettingsHash)
                 /\ labelsShown' = ShownAfter(labelsShown, SettingsHash)
                 /\ timers' = timers \cup NavTimers(nruns + 1)
  /\ lastUpdate' = NoUpdate
  /\ UNCHANGED <<rightClickedElement, rules, form>>

\* A run triggered when no other run is active and no timer is pending.
ClickB(r, maxRuns) ==
  /\ \A q \in Slots : ~Active(q)
  /\ timers = {}
  /\ nruns < maxRuns
  /\ HandleClick(r)

ContextMenu == ContextMenuB(MaxRuns)

Click(r) == ClickB(r, MaxRuns)

\* Moments of a pending wait (milliseconds since it started) at which the
\* host is taken to render what the wait polls for.  For the navigation
\* wait: at once (detection at the first poll); 8800 (detection at 9000, the
\* settle delay ends with the timeout); 9000 (detection at 9200, the timeout
\* comes before the end of the settle delay); 9800 (the detecting poll is due
\* together with the timeout).  For the form wait: at once; before the last
\* poll within the timeout; before the poll that is the first one late
\* enough to time out.
SettingsRenderTimes == {0, 8800, 9000, 9800}
LabelsRenderTimes == {0, 4900, 5000}

\* The host renders the settings view while the settings location is shown,
\* and a label of the criteria form while the form is open.
RenderSettings ==
  /\ hash = SettingsHash
  /\ ~settingsShown
  /\ \A q \in OverlapSlots :
       run[q].navState = "pending" => run[q].navElapsed \in SettingsRenderTimes
  /\ settingsShown' = TRUE
  /\ UNCHANGED <<rightClickedElement, hash, rules, form, labelsShown, timers,
                 run, nruns, lastUpdate>>

RenderLabels ==
  /\ hash = SettingsHash
  /\ form.view = "criteria"
  /\ ~labelsShown
  /\ \A q \in OverlapSlots :
       run[q].wlState = "pending" => run[q].wlElapsed \in LabelsRenderTimes
  /\ labelsShown' = TRUE
  /\ UNCHANGED <<rightClickedElement, hash, rules, form, settingsShown, timers,
                 run, nruns, lastUpdate>>

\* createOrUpdateFilter after `await navigateToFiltersSettings()`:
\* findFilterByMetadata, then the start of updateExistingFilter or of
\* createNewFilter up to its first suspension.
AfterNavigate(r, aged, rec, tms) ==
  \E rowsRendered \in BOOLEAN, createFilterBtn \in BOOLEAN, labels \in BOOLEAN :
    LET existingFilter == findFilterByMetadata(RenderedRows(rowsRendered), rec.labelName)
        matched == [rec EXCEPT !.existingFilter = existingFilter,
                               !.rowsRendered = rowsRendered]
    IN
    IF existingFilter # 0
    THEN \* filterElement.click(): the host opens the rule's edit view
         /\ form' = [view |-> "edit", from |-> rules[existingFilter].from,
                     doesntHave |-> rules[existingFilter].doesntHave,
                     row |-> existingFilter, checked |-> FALSE, label |-> Null,
                     owner |-> r]
         /\ run' = [aged EXCEPT ![r] =
                      [matched EXCEPT !.pc = "editOpen", !.path = "update",
                                      !.touched = TRUE]]
         /\ timers' = tms \cup {Timer(rec.id, "delay", EditOpenDelayMs)}
         /\ lastUpdate' = NoUpdate
         /\ UNCHANGED <<hash, settingsShown, labelsShown>>
    ELSE IF ~createFilterBtn
    THEN /\ Throw(r, aged, Fail([matched EXCEPT !.path = "create"], "createBtn"), tms)
         /\ UNCHANGED form
    ELSE \* createFilterBtn.click(): the host opens the wizard's criteria form;
         \* the settings view may hold a label already
         /\ form' = [ClosedForm EXCEPT !.view = "criteria", !.owner = r]
         /\ labelsShown' = (labelsShown \/ labels)
         /\ run' = [aged EXCEPT ![r] =
                      [matched EXCEPT !.pc = "waitLabels", !.path = "create",
                                      !.touched = TRUE, !.wlState = "pending",
                                      !.wlTrueAtStart = labelsShown']]
         /\ timers' = tms \cup {Timer(rec.id, "wlInterval", LabelsIntervalMs)}
         /\ lastUpdate' = NoUpdate
         /\ UNCHANGED <<hash, settingsShown>>

\* Mutant of NavResolve: the timeout callback clears the interval and does
\* not resolve.
NavResolveNotOnTimeout(r, aged, tms, by) ==
  IF aged[r].navState = "pending" /\ by = "settle"
  THEN AfterNavigate(r, aged,
                     [aged[r] EXCEPT !.navState = "resolved", !.navBy = by,
                                     !.navElapsed = 0, !.navDetectAt = 0],
                     tms)
       /\ UNCHANGED <<rightClickedElement, rules, nruns>>
  ELSE /\ run' = aged
       /\ timers' = tms
       /\ UNCHANGED <<rightClickedElement, hash, rules, form, settingsShown,
                      labelsShown, nruns, lastUpdate>>

\* Mutant of NavResolve: the timeout rejects, which createOrUpdateFilter
\* rethrows.
NavResolveTimeoutFatal(r, aged, tms, by) ==
  IF aged[r].navState = "pending" /\ by = "timeout"
  THEN /\ Throw(r, aged,
                [aged[r] EXCEPT !.navState = "resolved", !.navBy = by,
                                !.navElapsed = 0, !.navDetectAt = 0],
                tms)
       /\ UNCHANGED <<rightClickedElement, rules, form, nruns>>
  ELSE IF aged[r].navState = "pending"
  THEN AfterNavigate(r, aged,
                     [aged[r] EXCEPT !.navState = "resolved", !.navBy = by,
                                     !.navElapsed = 0, !.navDetectAt = 0],
                     tms)
       /\ UNCHANGED <<rightClickedElement, rules, nruns>>
  ELSE /\ run' = aged
       /\ timers' = tms
       /\ UNCHANGED <<rightClickedElement, hash, rules, form, settingsShown,
                      labelsShown, nruns, lastUpdate>>

\* Mutant of NavResolve: a resolve() of an already resolved promise runs the
\* continuation again.
NavResolveAgain(r, aged, tms, by) ==
  /\ AfterNavigate(r, aged,
                   [aged[r] EXCEPT !.navState = "resolved", !.navBy = by,
                                   !.navElapsed = 0, !.navDetectAt = 0],
                   tms)
  /\ UNCHANGED <<rightClickedElement, rules, nruns>>

\* navigateToFiltersSettings: resolve() of its promise; a promise that is
\* already resolved stays as it is.
NavResolve(r, aged, tms, by) ==
  IF aged[r].navState = "pending"
  THEN AfterNavigate(r, aged,
                     [aged[r] EXCEPT !.navState = "resolved", !.navBy = by,
                                     !.navElapsed = 0, !.navDetectAt = 0],
                     tms)
       /\ UNCHANGED <<rightClickedElement, rules, nruns>>
  ELSE /\ run' = aged
       /\ timers' = tms
       /\ UNCHANGED <<rightClickedElement, hash, rules, form, settingsShown,
                      labelsShown, nruns, lastUpdate>>

\* navigateToFiltersSettings: the setInterval callback (index.ts:134-142).
NavPoll(r) ==
  \E t \in timers :
    /\ Due(t) /\ t.kind = "navInterval" /\ t.id = run[r].id
    /\ LET aged == Aged(t.delay) IN
       IF settingsShown
       THEN /\ timers' = Rest(t) \cup {NavSettleTimer(t.id)}
            /\ run' = [aged EXCEPT ![r].navDetectAt = aged[r].navElapsed]
       ELSE /\ timers' = Rest(t) \cup {Timer(t.id, "navInterval", NavIntervalMs)}
            /\ run' = aged
    /\ UNCHANGED <<rightClickedElement, hash, rules, form, settingsShown,
                   labelsShown, nruns, lastUpdate>>

\* navigateToFiltersSettings: the settle timeout set on detection
\* (index.ts:140).
NavSettle(r) ==
  \E t \in timers :
    /\ Due(t) /\ t.kind = "navSettle" /\ t.id = run[r].id
    /\ NavResolve(r, Aged(t.delay), Rest(t), "settle")

\* navigateToFiltersSettings: the 10 s timeout (index.ts:145-148).
NavTimeout(r) ==
  \E t \in timers :
    /\ Due(t) /\ t.kind = "navTimeout" /\ t.id = run[r].id
    /\ NavResolve(r, Aged(t.delay),
                  {u \in Rest(t) : ~(u.kind = "navInterval" /\ u.id = t.id)},
                  "timeout")

\* A one-shot `await new Promise(resolve => setTimeout(resolve, ms))` of run
\* r is due while r is at pc.
DelayDue(r, pc, t) ==
  /\ Due(t) /\ t.kind = "delay" /\ t.id = run[r].id
  /\ run[r].pc = pc

\* createNewFilter after `await waitForLabels()` up to the 300 ms delay:
\* the From input and the marker (index.ts:217-235).
FillCriteria(r, aged, rec, tms) ==
  \E fromInput \in BOOLEAN, doesntHaveInput \in BOOLEAN :
    IF ~fromInput
    THEN /\ Throw(r, aged, Fail(rec, "from"), tms)
         /\ UNCHANGED form
    ELSE /\ form' = [form EXCEPT
                       !.from = rec.senderEmail,
                       !.doesntHave = IF doesntHaveInput
                                      THEN Marker(rec.labelName) ELSE @]
         /\ run' = [aged EXCEPT ![r] =
                      [rec EXCEPT !.pc = "proceedDelay",
                                  !.foreignForm = @ \/ form.owner # r,
                                  !.steps = @ \o <<"from">>
                                              \o IF doesntHaveInput
                                                 THEN <<"marker">> ELSE <<>>,
                                  !.fromWrites = @ + 1,
                                  !.markerWrites =
                                     IF doesntHaveInput THEN @ + 1 ELSE @]]
         /\ timers' = tms \cup {Timer(rec.id, "delay", ProceedDelayMs)}
         /\ UNCHANGED <<hash, settingsShown, labelsShown, lastUpdate>>

\* Mutant of LabelsReject: the timeout of the form wait resolves, as the one
\* of the navigation wait does.
LabelsRejectResolves(r, aged, tms) ==
  FillCriteria(r, aged,
               Fail([aged[r] EXCEPT !.wlState = "rejected", !.wlElapsed = 0],
                    "labels"),
               tms)

\* waitForLabels: clearInterval and reject() on timeout (index.ts:308-311);
\* createNewFilter throws at `await waitForLabels()`.
LabelsReject(r, aged, tms) ==
  /\ Throw(r, aged,
           Fail([aged[r] EXCEPT !.wlState = "rejected", !.wlElapsed = 0],
                "labels"),
           tms)
  /\ UNCHANGED form

\* waitForLabels: the setInterval callback (index.ts:302-312), and on
\* resolve the part of createNewFilter up to the 300 ms delay.
WaitLabelsPoll(r) ==
  \E t \in timers :
    /\ Due(t) /\ t.kind = "wlInterval" /\ t.id = run[r].id
    /\ LET aged == Aged(t.delay)
           elapsed == aged[r].wlElapsed
       IN
       IF labelsShown
       THEN \* clearInterval; resolve(); a later reject() has no effect
            FillCriteria(r, aged,
                         [aged[r] EXCEPT !.wlState = "resolved", !.wlElapsed = 0],
                         Rest(t))
       ELSE IF LabelsTimedOut(elapsed)
       THEN LabelsReject(r, aged, Rest(t))
       ELSE /\ timers' = Rest(t) \cup {Timer(t.id, "wlInterval", LabelsIntervalMs)}
            /\ run' = aged
            /\ UNCHANGED <<hash, form, settingsShown, labelsShown, lastUpdate>>
    /\ UNCHANGED <<rightClickedElement, rules, nruns>>

\* createNewFilter after the 300 ms delay: the proceed button
\* (index.ts:236-245).
CreateProceed(r) ==
  \E t \in timers :
    /\ DelayDue(r, "proceedDelay", t)
    /\ \E proceedBtn \in BOOLEAN, checked \in BOOLEAN :
         IF ~proceedBtn
         THEN /\ Throw(r, Aged(t.delay), Fail(Aged(t.delay)[r], "proceed"), Rest(t))
              /\ UNCHANGED form
         ELSE \* proceedBtn.click(): the host shows the actions step
              /\ form' = [form EXCEPT !.view = "actions", !.checked = checked]
              /\ run' = [Aged(t.delay) EXCEPT ![r].pc = "actionsDelay",
                                              ![r].foreignForm =
                                                 @ \/ form.owner # r,
                                              ![r].steps = Append(@, "proceed"),
                                              ![r].proceedClicks = @ + 1]
              /\ timers' = Rest(t) \cup {Timer(t.id, "delay", ActionsDelayMs)}
              /\ UNCHANGED <<hash, settingsShown, labelsShown, lastUpdate>>
    /\ UNCHANGED <<rightClickedElement, rules, nruns>>

\* createNewFilter: the hand-off message and the return (index.ts:257-261);
\* the open wizard is the one the message asks the user to finish.
HandOff(r, aged, rec, tms) ==
  /\ Return(r, aged,
            [rec EXCEPT !.alerts = Append(@, "handoff"),
                        !.steps = Append(@, IF form.checked THEN "handoffOn"
                                                            ELSE "handoffOff")],
            tms)
  /\ form' = [form EXCEPT !.label = rec.labelName]

\* Mutant of ToggleNeedsClick: the checkbox is clicked whatever its state.
ToggleAlwaysClicked(checked) == TRUE

\* createNewFilter: `!applyLabelCheckbox.checked` (index.ts:251).
ToggleNeedsClick(checked) == ~checked

\* createNewFilter after the 800 ms delay: the apply-label checkbox
\* (index.ts:248-255).
CreateApplyLabel(r) ==
  \E t \in timers :
    /\ DelayDue(r, "actionsDelay", t)
    /\ \E applyLabelCheckbox \in BOOLEAN :
         LET aged == Aged(t.delay) IN
         IF ~applyLabelCheckbox
         THEN /\ Throw(r, aged, Fail(aged[r], "applyLabel"), Rest(t))
              /\ UNCHANGED form
         ELSE IF ToggleNeedsClick(form.checked)
         THEN \* applyLabelCheckbox.click(): the host toggles the checkbox
              /\ form' = [form EXCEPT !.checked = ~@]
              /\ run' = [aged EXCEPT ![r].pc = "checkboxDelay",
                                     ![r].foreignForm = @ \/ form.owner # r,
                                     ![r].steps = @ \o <<IF form.checked THEN "readOn"
                                                                     ELSE "readOff",
                                                     "click">>,
                                     ![r].checkboxClicks = @ + 1]
              /\ timers' = Rest(t) \cup {Timer(t.id, "delay", CheckboxDelayMs)}
              /\ UNCHANGED <<hash, settingsShown, labelsShown, lastUpdate>>
         ELSE HandOff(r, aged,
                      [aged[r] EXCEPT !.steps = Append(@, "readOn"),
                                      !.foreignForm = @ \/ form.owner # r],
                      Rest(t))
    /\ UNCHANGED <<rightClickedElement, rules, nruns>>

\* createNewFilter after the 500 ms delay that follows the checkbox click.
CreateHandOff(r) ==
  \E t \in timers :
    /\ DelayDue(r, "checkboxDelay", t)
    /\ HandOff(r, Aged(t.delay), Aged(t.delay)[r], Rest(t))
    /\ UNCHANGED <<rightClickedElement, rules, nruns>>

\* The user's manual step: selects the label and clicks "Create filter";
\* the host stores the rule the wizard describes.
UserFinishB(rule) ==
  /\ form.view = "actions"
  /\ \A q \in OverlapSlots : ~Active(q)
  /\ rules' = Append(rules, rule)
  /\ form' = ClosedForm
  /\ UNCHANGED <<rightClickedElement, hash, settingsShown, labelsShown, timers,
                 run, nruns, lastUpdate>>

UserFinish == UserFinishB(Rule(form.from, form.doesntHave))

\* The same step, where the label that the hand-off message named is kept
\* with the stored rule.
UserFinishLabelled ==
  UserFinishB([Rule(form.from, form.doesntHave) EXCEPT !.createdFor = form.label])

\* updateExistingFilter after the 1000 ms delay (index.ts:268-286).
UpdateReadFrom(r) ==
  \E t \in timers :
    /\ DelayDue(r, "editOpen", t)
    /\ \E fromInput \in BOOLEAN, cancelBtn \in BOOLEAN :
         LET aged == Aged(t.delay)
             currentValue == form.from
         IN
         IF ~fromInput
         THEN /\ Throw(r, aged, Fail(aged[r], "editFrom"), Rest(t))
              /\ UNCHANGED <<form, rules>>
         ELSE IF AlreadyListed(currentValue, aged[r].senderEmail)
         THEN \* cancelBtn.click(): the host closes the edit view
              /\ form' = IF cancelBtn THEN ClosedForm ELSE form
              /\ Return(r, aged,
                        [aged[r] EXCEPT !.fromBefore = currentValue,
                                        !.foreignForm = @ \/ form.owner # r],
                        Rest(t))
              /\ UNCHANGED rules
         ELSE /\ form' = [form EXCEPT
                            !.from = Appended(currentValue, aged[r].senderEmail)]
              /\ run' = [aged EXCEPT ![r].pc = "updateDelay",
                                     ![r].foreignForm = @ \/ form.owner # r,
                                     ![r].fromBefore = currentValue,
                                     ![r].fromWrites = @ + 1]
              /\ timers' = Rest(t) \cup {Timer(t.id, "delay", UpdateDelayMs)}
              /\ UNCHANGED <<hash, rules, settingsShown, labelsShown, lastUpdate>>
    /\ UNCHANGED <<rightClickedElement, nruns>>

\* updateExistingFilter after the 500 ms delay: the update button
\* (index.ts:287-295).
UpdateClickUpdate(r) ==
  \E t \in timers :
    /\ DelayDue(r, "updateDelay", t)
    /\ \E updateBtn \in BOOLEAN :
         LET aged == Aged(t.delay) IN
         IF updateBtn
         THEN \* updateBtn.click(): the host stores the edited criteria
              /\ rules' = [rules EXCEPT ![form.row].from = form.from]
              /\ form' = ClosedForm
              /\ run' = [aged EXCEPT ![r].pc = "updatedDelay",
                                     ![r].foreignForm = @ \/ form.owner # r,
                                     ![r].updateClicks = @ + 1]
              /\ timers' = Rest(t) \cup {Timer(t.id, "delay", UpdatedDelayMs)}
              /\ UNCHANGED <<hash, settingsShown, labelsShown, lastUpdate>>
         ELSE /\ Return(r, aged, aged[r], Rest(t))
              /\ UNCHANGED <<rules, form>>
    /\ UNCHANGED <<rightClickedElement, nruns>>

\* updateExistingFilter after the last 500 ms delay: it returns.
UpdateSettled(r) ==
  \E t \in timers :
    /\ DelayDue(r, "updatedDelay", t)
    /\ Return(r, Aged(t.delay), Aged(t.delay)[r], Rest(t))
    /\ UNCHANGED <<rightClickedElement, rules, form, nruns>>

\* The callbacks of run r's timers.
TimerStep(r) ==
  \/ NavPoll(r)
  \/ NavSettle(r)
  \/ NavTimeout(r)
  \/ WaitLabelsPoll(r)
  \/ CreateProceed(r)
  \/ CreateApplyLabel(r)
  \/ CreateHandOff(r)
  \/ UpdateReadFrom(r)
  \/ UpdateClickUpdate(r)
  \/ UpdateSettled(r)

Host ==
  \/ RenderSettings
  \/ RenderLabels
  \/ UserFinish

Next ==
  \/ ContextMenu
  \/ \E r \in Slots : Click(r)
  \/ Host
  \/ \E r \in Slots : TimerStep(r)

Spec == Init /\ [][Next]_vars

\* ------------------------------------------------------------------------
\* Properties
\* ------------------------------------------------------------------------

Done(r) == run[r].pc = "done"

Count(alerts, kinds) == Cardinality({i \in 1..Len(alerts) : alerts[i] \in kinds})

\* C1: every run that reached Navigating ends with the location equal to the
\* one createOrUpdateFilter recorded before navigating, whether creation or
\* update completed or threw.
C1_RestoredOnEveryExit ==
  \A r \in Slots :
    (Done(r) /\ run[r].navigated) => run[r].endHash = run[r].originalHash

\* The rule a run matched carries the marker of the run's label.
MatchedOwnRule(r) ==
  /\ run[r].existingFilter \in 1..Len(rules)
  /\ rules[run[r].existingFilter].doesntHave = Marker(run[r].labelName)

\* C2: when the update path runs twice in succession on the same matched rule
\* with the same sender, the second run writes nothing to the From input and
\* does not invoke the update affordance.
C2_SecondUpdateWritesNothing ==
  \A r \in Slots :
    ( /\ Done(r) /\ run[r].path = "update" /\ ~run[r].threw
      /\ MatchedOwnRule(r)
      /\ run[r].prevUpdate.row = run[r].existingFilter
      /\ run[r].prevUpdate.sender = run[r].senderEmail )
    => (run[r].fromWrites = 0 /\ run[r].updateClicks = 0)

\* C3: the location is changed and host elements are touched only in runs with
\* a validated sender and a label that is non-empty after trimming; a null
\* extraction alerts and does nothing else; a cancelled or blank prompt ends
\* the run with no message, no navigation and no mutation.
C3_NoInteractionWithoutRequest ==
  \A r \in Slots :
    /\ (run[r].navigated \/ run[r].touched)
         => /\ run[r].extracted = "address"
            /\ validateEmail(run[r].senderEmail)
            /\ run[r].answer # Null
            /\ Trim(run[r].answer) # <<>>
    /\ run[r].extracted = "null"
         => /\ Done(r) /\ run[r].alerts = <<"nosender">>
            /\ ~run[r].prompted /\ ~run[r].navigated /\ ~run[r].touched
    /\ (run[r].prompted /\ (run[r].answer = Null \/ Trim(run[r].answer) = <<>>))
         => /\ Done(r) /\ run[r].alerts = <<>>
            /\ ~run[r].navigated /\ ~run[r].touched

\* C3 witness: a run that ended after a blank (whitespace only) answer to
\* the prompt.
C3_Witness ==
  \E r \in Slots : Done(r) /\ run[r].prompted /\ run[r].answer = <<" ">>

\* C4: at most one rule carries the marker of a given label.
C4_MarkerUnique ==
  \A labelName \in {LabelN, LabelNL} :
    Cardinality({i \in 1..Len(rules) : rules[i].doesntHave = Marker(labelName)}) <= 1

\* C5: findFilterByMetadata returns null when no rendered rule carries the
\* label's marker, and the row that carries it when exactly one does.
C5_MatcherCorrect ==
  \A r \in Slots :
    (Active(r) /\ run[r].navState = "resolved")
    => LET rows == RenderedRows(run[r].rowsRendered)
           carriers == {i \in 1..Len(rows) :
                          rows[i].doesntHave = Marker(run[r].labelName)}
       IN  /\ carriers = {} => run[r].existingFilter = 0
           /\ Cardinality(carriers) = 1 => run[r].existingFilter \in carriers

\* C6: when a rule is matched and its From value does not contain the sender,
\* a run that reports success has written the previous value, " | " and the
\* sender to the From input and invoked the update affordance exactly once.
C6_UpdateInvokedOnce ==
  \A r \in Slots :
    ( /\ Done(r) /\ run[r].path = "update"
      /\ MatchedOwnRule(r)
      /\ Count(run[r].alerts, {"success"}) > 0
      /\ run[r].fromBefore # Null
      /\ ~Includes(run[r].fromBefore, run[r].senderEmail) )
    => /\ run[r].fromWrites = 1
       /\ run[r].updateClicks = 1
       /\ rules[run[r].existingFilter].from
            = run[r].fromBefore \o <<" ", "|", " ">> \o run[r].senderEmail

\* C7: a run ends with exactly one of a success message, a failure message or
\* silence; a thrown error gives the failure message and never the success
\* message; no such message is shown before the run ends.
C7_SingleOutcome ==
  \A r \in Slots :
    LET nSuccess == Count(run[r].alerts, {"success"})
        nFailure == Count(run[r].alerts, {"failed", "nosender"})
    IN  /\ nSuccess + nFailure <= 1
        /\ Active(r) => nSuccess + nFailure = 0
        /\ run[r].threw => (Done(r) /\ nFailure = 1 /\ nSuccess = 0)
        /\ (Done(r) /\ run[r].navigated) => nSuccess + nFailure = 1
        /\ (Done(r) /\ nSuccess + nFailure = 0)
             => (run[r].alerts = <<>> /\ ~run[r].navigated /\ ~run[r].touched)

\* C7 witness: a run in which a required step of the creation failed.
C7_Witness ==
  \E r \in Slots : Done(r) /\ run[r].threw /\ run[r].path = "create"
                   /\ run[r].fromWrites = 1

\* The time that passes in a step in which a timer fires.
StepTime == IF timers = {} THEN 0 ELSE Least({t.delay : t \in timers})

HasSettle(tms, r) == \E t \in tms : t.kind = "navSettle" /\ t.id = run[r].id

\* Steps in which a poll finds what it waits for, steps in which a wait ends
\* with its timeout outcome, and how long the wait has lasted by then.
NavDetects(r) == ~HasSettle(timers, r) /\ HasSettle(timers', r)
LabelsDetects(r) == run[r].wlState = "pending" /\ run'[r].wlState = "resolved"
NavTimesOut(r) ==
  /\ run[r].navState = "pending"
  /\ run'[r].navState = "resolved" /\ run'[r].navBy = "timeout"
LabelsTimesOut(r) == run[r].wlState = "pending" /\ run'[r].wlState = "rejected"
NavWaited(r) == run[r].navElapsed + StepTime
LabelsWaited(r) == run[r].wlElapsed + StepTime

\* C8 (as claimed): when what a wait polls for is already there when the wait
\* starts, the wait detects it before a full polling interval has passed.
C8_ImmediateResolution ==
  [][\A r \in Slots :
       /\ (NavDetects(r) /\ run[r].navTrueAtStart) => NavWaited(r) < NavIntervalMs
       /\ (LabelsDetects(r) /\ run[r].wlTrueAtStart)
            => LabelsWaited(r) < LabelsIntervalMs]_vars

\* C8 (amended): when what a wait polls for is already there when the wait
\* starts, the wait detects it at its first poll, exactly one polling
\* interval after the wait started.
C8_DetectedAtFirstPoll ==
  [][\A r \in Slots :
       /\ (NavDetects(r) /\ run[r].navTrueAtStart) => NavWaited(r) = NavIntervalMs
       /\ (LabelsDetects(r) /\ run[r].wlTrueAtStart)
            => LabelsWaited(r) = LabelsIntervalMs]_vars

\* C8 witness: a run whose navigation wait and whose form wait both started
\* with their element present, and detected it.
C8_Witness ==
  \E r \in Slots :
    /\ run[r].navTrueAtStart /\ run[r].navState = "resolved"
    /\ run[r].wlTrueAtStart /\ run[r].wlState = "resolved"

\* C9: a wait that ends with its timeout outcome ends no earlier than its
\* timeout and no later than its timeout plus one polling interval.
C9_BoundedTimeout ==
  [][\A r \in Slots :
       /\ NavTimesOut(r)
            => /\ NavWaited(r) >= NavTimeoutMs
               /\ NavWaited(r) <= NavTimeoutMs + NavIntervalMs
       /\ LabelsTimesOut(r)
            => /\ LabelsWaited(r) >= LabelsTimeoutMs
               /\ LabelsWaited(r) <= LabelsTimeoutMs + LabelsIntervalMs]_vars

\* C9 witness: a run whose navigation wait timed out and whose form wait was
\* rejected on timeout.
C9_Witness ==
  \E r \in Slots : run[r].navBy = "timeout" /\ run[r].wlState = "rejected"

\* Timers fire: a due callback is eventually run.
TimerFires == \E r \in Slots : TimerStep(r)

\* Runs the user triggers in the specification with fairness.
MaxLiveRuns == 1

LiveNext ==
  \/ ContextMenuB(MaxLiveRuns)
  \/ \E r \in Slots : ClickB(r, MaxLiveRuns)
  \/ Host
  \/ \E r \in Slots : TimerStep(r)

LiveSpec == Init /\ [][LiveNext]_vars /\ WF_vars(TimerFires)

\* C10: every triggered run eventually ends (done, failed or no-op).
C10_Terminates == \A r \in Slots : Active(r) ~> Done(r)

\* C10 witness: a run ended after both of its waits timed out or failed.
C10_Witness ==
  \E r \in Slots : Done(r) /\ run[r].navBy = "timeout" /\ run[r].wlState = "rejected"
                   /\ timers = {}

\* The time since the poll of run r's navigation wait detected the settings
\* view, in a step that resolves the wait.
NavResolves(r) == run[r].navState = "pending" /\ run'[r].navState = "resolved"
SinceDetection(r) == NavWaited(r) - run[r].navDetectAt

\* C11 (as claimed): whenever a poll detected the settings view, the
\* navigation wait resolves no earlier than 1000 ms after that detection.
C11_SettleAfterDetection ==
  [][\A r \in Slots :
       (NavResolves(r) /\ HasSettle(timers, r)) => SinceDetection(r) >= NavSettleMs]_vars

\* C11 (amended): after a detection the navigation wait resolves exactly
\* 1000 ms after it, or earlier when the 10 s timeout comes first, and then
\* exactly 10 s after the wait started.
C11_SettleOrTimeout ==
  [][\A r \in Slots :
       (NavResolves(r) /\ HasSettle(timers, r))
       => \/ /\ run'[r].navBy = "settle"
             /\ SinceDetection(r) = NavSettleMs
             /\ NavWaited(r) <= NavTimeoutMs
          \/ /\ run'[r].navBy = "timeout"
             /\ NavWaited(r) = NavTimeoutMs
             /\ run[r].navDetectAt >= NavTimeoutMs - NavSettleMs]_vars

\* C11 witness: a wait that was resolved by its timeout after a detection;
\* the settle timer is still pending.
C11_Witness ==
  \E r \in Slots :
    /\ run[r].navState = "resolved" /\ run[r].navBy = "timeout"
    /\ HasSettle(timers, r)

\* A pending timer of the given kind that belongs to run r.
HasTimer(tms, r, kind) == \E t \in tms : t.kind = kind /\ t.id = run[r].id

\* C12: once a poll has detected its element or a wait has ended, the poll
\* timer of that wait is no longer pending, so the predicate is not evaluated
\* again; the outcome of a wait is decided once: a wait that has resolved or
\* rejected keeps its outcome, and a callback that fires after the run has
\* ended changes nothing of the run.
C12_PollClearedOutcomeOnce ==
  [][\A r \in Slots :
       /\ (run[r].navState # "pending" \/ HasSettle(timers, r))
            => ~HasTimer(timers, r, "navInterval")
       /\ run[r].wlState # "pending" => ~HasTimer(timers, r, "wlInterval")
       /\ run'[r].id = run[r].id
            => /\ run[r].navState = "resolved"
                    => /\ run'[r].navState = "resolved"
                       /\ run'[r].navBy = run[r].navBy
               /\ run[r].wlState \in {"resolved", "rejected"}
                    => run'[r].wlState = run[r].wlState
               /\ Done(r) => run'[r] = run[r]]_vars

\* C12 witness: a run has ended whose navigation wait was resolved after a
\* detection and whose form wait was rejected, while the 10 s timeout of the
\* navigation wait is still to fire.
C12_Witness ==
  \E r \in Slots :
    /\ Done(r) /\ run[r].navBy = "settle" /\ run[r].wlState = "rejected"
    /\ HasTimer(timers, r, "navTimeout")

\* What follows the navigation wait: matching, then the update path when a
\* row matched and the creation path otherwise; the creation path fails at
\* once only for want of the create button.
Proceeded(rec) ==
  /\ rec.existingFilter
       = findFilterByMetadata(RenderedRows(rec.rowsRendered), rec.labelName)
  /\ rec.existingFilter # 0 => (rec.path = "update" /\ rec.pc = "editOpen")
  /\ rec.existingFilter = 0
       => /\ rec.path = "create"
          /\ rec.pc \in {"waitLabels", "done"}
          /\ rec.pc = "done" => (rec.threw /\ ~rec.touched)

\* C13: the navigation wait never fails: it is pending or resolved, a run
\* fails only after its navigation wait resolved, and a wait that resolves,
\* by its 10 s timeout as after a detection, is followed by matching and by
\* the creation or the update path.
C13_TimeoutProceeds ==
  [][\A r \in Slots :
       /\ run'[r].navState \in {"none", "pending", "resolved"}
       /\ run'[r].threw => run'[r].navState = "resolved"
       /\ NavResolves(r) => Proceeded(run'[r])]_vars

\* C13 witness: a run whose navigation wait timed out completed the update
\* path.
C13_Witness ==
  \E r \in Slots :
    /\ Done(r) /\ ~run[r].threw
    /\ run[r].navBy = "timeout" /\ run[r].path = "update"
    /\ run[r].updateClicks = 1

\* The steps of createNewFilter at which a required element can be missing,
\* in the order of the code.
CreateSteps == <<"createBtn", "labels", "from", "proceed", "applyLabel">>

\* What run record rec did at the creation step of the given number.
DidStep(rec, k) ==
  CASE k = 1 -> rec.touched
    [] k = 2 -> rec.wlState = "resolved"
    [] k = 3 -> rec.fromWrites > 0 \/ rec.markerWrites > 0
    [] k = 4 -> rec.proceedClicks > 0
    [] k = 5 -> rec.checkboxClicks > 0 \/ Count(rec.alerts, {"handoff"}) > 0

\* C14: a creation that finds a required element missing (the create button,
\* a label within the form wait, the From input, the proceed button, the
\* apply-label checkbox) fails at that step: the run ends with the failure
\* message, and did not do that step or any later one; after a form-wait
\* timeout no input was written and the proceed button was not clicked.
C14_RequiredStepAborts ==
  \A r \in Slots :
    /\ \A k \in 1..Len(CreateSteps) :
         run[r].failedAt = CreateSteps[k]
         => /\ Done(r) /\ run[r].threw /\ run[r].path = "create"
            /\ Count(run[r].alerts, {"success", "handoff"}) = 0
            /\ \A later \in k..Len(CreateSteps) : ~DidStep(run[r], later)
    /\ run[r].wlState = "rejected"
         => /\ run[r].failedAt = "labels"
            /\ run[r].fromWrites = 0 /\ run[r].markerWrites = 0
            /\ run[r].proceedClicks = 0
    /\ (run[r].threw /\ run[r].path = "create")
         => \E k \in 1..Len(CreateSteps) : run[r].failedAt = CreateSteps[k]

\* C14 witness: a creation failed for want of the proceed button after it
\* wrote the From input.
C14_Witness ==
  \E r \in Slots :
    /\ Done(r) /\ run[r].failedAt = "proceed" /\ run[r].fromWrites = 1

\* The orders of steps of a completed creation: the From input, then the
\* marker where its input exists, then the proceed button, then the
\* checkbox read and, when it was read off, one click; the hand-off message
\* last, with the checkbox on.
CreationOrders ==
  {w \o <<"proceed">> \o t \o <<"handoffOn">> :
     w \in {<<"from">>, <<"from", "marker">>},
     t \in {<<"readOn">>, <<"readOff", "click">>}}

\* C15: in every run in which createNewFilter completed, the From input was
\* written before the marker, both before the one click on the proceed
\* button, that before the checkbox was read, and the checkbox was clicked
\* only when it was read off, at most once, so that it was on when the
\* hand-off message was shown.
C15_CreationOrder ==
  \A r \in Slots :
    (Done(r) /\ Count(run[r].alerts, {"handoff"}) > 0)
    => /\ run[r].steps \in CreationOrders
       /\ run[r].fromWrites = 1 /\ run[r].markerWrites <= 1
       /\ run[r].proceedClicks = 1 /\ run[r].checkboxClicks <= 1
       /\ Count(run[r].alerts, {"handoff"}) = 1

\* C15 witness: a completed creation that found the checkbox off and
\* clicked it.
C15_Witness ==
  \E r \in Slots :
    /\ Done(r) /\ Count(run[r].alerts, {"handoff"}) = 1
    /\ run[r].checkboxClicks = 1 /\ run[r].markerWrites = 1

\* ------------------------------------------------------------------------
\* Sender extraction on deep elements
\* ------------------------------------------------------------------------

\* Nodes: one with nothing to find; one whose three lookups all give invalid
\* text; one whose descendant attribute is invalid and whose own attribute is
\* valid; one whose descendant attribute is valid; one with an empty own
\* attribute and a "Name <address>" text; one with a bare address in its
\* text.
NodeKinds ==
  { Node(Null, Null, Null),
    Node(<<"x">>, <<"j", "e">>, <<"n", "o">>),
    Node(<<"x">>, Jane, <<"J", "<">> \o Old \o <<">">>),
    Node(XJane, Jane, Null),
    Node(Null, <<>>, <<"J", "<">> \o Jane \o <<">">>),
    Node(Null, Null, <<" ">> \o Old \o <<" ">>) }

\* Numbers of nodes with nothing to find below the nodes of interest: none,
\* and the numbers around the loop bound.
PadLengths == {0, 13, 14, 15}

Pad(k) == [i \in 1..k |-> Node(Null, Null, Null)]

\* Right-clicked elements: one or two nodes of interest above a padding.
ExtractInputs ==
  {Pad(k) \o c : k \in PadLengths,
                 c \in {<<a>> : a \in NodeKinds}
                       \cup {<<a, b>> : a \in NodeKinds, b \in NodeKinds}}

\* Runs triggered on each of these elements.
MaxExtractRuns == 1

ExtractInit ==
  /\ rightClickedElement \in ExtractInputs
  /\ hash = InboxHash
  /\ rules = <<>>
  /\ form = ClosedForm
  /\ settingsShown = FALSE
  /\ labelsShown = FALSE
  /\ timers = {}
  /\ run = [r \in OverlapSlots |-> NewRun(0)]
  /\ nruns = 0
  /\ lastUpdate = NoUpdate

ExtractNext == \E r \in Slots : ClickB(r, MaxExtractRuns)

ExtractSpec == ExtractInit /\ [][ExtractNext]_vars

\* The candidates of a node in the order the claim gives, and validity.
Candidates(node) ==
  <<node.desc, node.own,
    IF node.text = Null THEN Null ELSE extractEmailAddress(node.text)>>

ValidCandidate(c) == c # Null /\ validateEmail(c)

\* What a run found for its element: Null or the address.
Extracted(r) == IF run[r].extracted = "null" THEN Null ELSE run[r].senderEmail

\* C16: extractSenderFromElement examines the first 15 nodes of the chain at
\* most; it returns the first valid candidate of the lowest examined level
\* that has one, taking the descendant attribute, the own attribute and the
\* parsed text in this order; it returns null exactly when no examined level
\* has a valid candidate; a returned string passes validateEmail.
C16_ExtractionBoundedFirstValid ==
  \A r \in Slots :
    (run[r].id > 0 /\ rightClickedElement # NoElement)
    => LET chain == rightClickedElement
           examined == 1..(IF Len(chain) < 15 THEN Len(chain) ELSE 15)
           hits == {k \in examined :
                      \E j \in 1..3 : ValidCandidate(Candidates(chain[k])[j])}
       IN  /\ Extracted(r) = extractSenderFromElement(chain)
           /\ hits = {} <=> Extracted(r) = Null
           /\ hits # {}
                => LET k == Least(hits)
                       js == {j \in 1..3 : ValidCandidate(Candidates(chain[k])[j])}
                   IN  Extracted(r) = Candidates(chain[k])[Least(js)]
           /\ Extracted(r) # Null => validateEmail(Extracted(r))

\* C16 witness: a run on an element whose only valid candidate is at the
\* sixteenth level found no sender.
C16_Witness ==
  \E r \in Slots :
    /\ run[r].id > 0 /\ run[r].extracted = "null"
    /\ Len(rightClickedElement) = 16
    /\ ValidCandidate(Candidates(rightClickedElement[16])[1])

\* The entries of a From criterion: its parts between " | " separators.
Separator == <<" ", "|", " ">>

SeparatorAt(s) == {i \in 1..(Len(s) - 2) : SubSeq(s, i, i + 2) = Separator}

RECURSIVE Entries(_)
Entries(s) ==
  IF SeparatorAt(s) = {} THEN {s}
  ELSE LET i == Least(SeparatorAt(s))
       IN  {SubSeq(s, 1, i - 1)} \cup Entries(SubSeq(s, i + 3, Len(s)))

\* C17: after a run on the update path reported success for a sender, the
\* matched rule's From criterion lists the sender as one of its entries
\* (runs that wrote the From input and did not click the update button are
\* left aside: see C6).
C17_SenderListedAfterUpdate ==
  \A r \in Slots :
    ( /\ Done(r) /\ run[r].path = "update"
      /\ Count(run[r].alerts, {"success"}) > 0
      /\ MatchedOwnRule(r)
      /\ run[r].updateClicks = run[r].fromWrites )
    => run[r].senderEmail \in Entries(rules[run[r].existingFilter].from)

\* Runs one after the other, with the label of a completed creation kept
\* with its rule.
CreatedNext ==
  \/ ContextMenu
  \/ \E r \in Slots : Click(r)
  \/ RenderSettings
  \/ RenderLabels
  \/ UserFinishLabelled
  \/ \E r \in Slots : TimerStep(r)

CreatedSpec == Init /\ [][CreatedNext]_vars

\* C18: a run for a label for which an earlier creation reported done and
\* was completed by the user, and which finds the rule list rendered when it matches, takes
\* the update path and does not open the wizard.
C18_CreatedLabelIsUpdated ==
  \A r \in Slots :
    ( /\ Active(r) /\ run[r].navState = "resolved" /\ run[r].rowsRendered
      /\ \E i \in 1..Len(rules) : rules[i].createdFor = run[r].labelName )
    => (run[r].path = "update" /\ form.view # "criteria")

\* ------------------------------------------------------------------------
\* Overlapping runs
\* ------------------------------------------------------------------------

\* Runs the user triggers where runs can overlap.
MaxOverlapRuns == 2

\* The user has right-clicked a message; the host holds one rule.
OverlapInit ==
  /\ rightClickedElement = ElText
  /\ hash = InboxHash
  /\ rules = <<Rule(Old, Marker(LabelNL))>>
  /\ form = ClosedForm
  /\ settingsShown = FALSE
  /\ labelsShown = FALSE
  /\ timers = {}
  /\ run = [r \in OverlapSlots |-> NewRun(0)]
  /\ nruns = 0
  /\ lastUpdate = NoUpdate

\* Moments of a pending wait of the earlier run (milliseconds since the wait
\* started) at which the user is taken to trigger the later run; during a
\* one-shot delay any moment is taken.
OverlapNavTimes == {0, 200}
OverlapLabelsTimes == {0}

\* The menu item's click listener has no guard against a run in progress
\* (index.ts:69-73): a later run is triggered while an earlier one is
\* suspended at a timer.
ClickOverlap(r) ==
  /\ r = nruns + 1
  /\ nruns < MaxOverlapRuns
  /\ nruns > 0
       => \E q \in OverlapSlots :
            /\ Active(q)
            /\ run[q].navState = "pending" => run[q].navElapsed \in OverlapNavTimes
            /\ run[q].wlState = "pending" => run[q].wlElapsed \in OverlapLabelsTimes
  /\ HandleClick(r)

OverlapNext ==
  \/ \E r \in OverlapSlots : ClickOverlap(r)
  \/ Host
  \/ \E r \in OverlapSlots : TimerStep(r)

OverlapSpec == OverlapInit /\ [][OverlapNext]_vars

\* C19: when a run was triggered while an earlier run was suspended and both
\* have ended without an error, the location is the one from before the
\* earlier run, and neither run acted on a form that the other run opened.
C19_OverlapNoInterference ==
  \A r1 \in OverlapSlots, r2 \in OverlapSlots :
    ( /\ run[r1].id > 0 /\ run[r2].startedDuring = run[r1].id
      /\ Done(r1) /\ Done(r2)
      /\ ~run[r1].threw /\ ~run[r2].threw )
    => /\ hash = run[r1].originalHash
       /\ ~run[r1].foreignForm /\ ~run[r2].foreignForm

====
